---- MODULE Spec2Model ----
(***************************************************************************)
(* A model of the StepPage wizard (src/step-page.tsx): the root controller *)
(* StepPage with its controlled/uncontrolled step state, the step-count    *)
(* registration effect of StepPages, the indicator buttons, and the async  *)
(* next/prev handlers of StepPageFooter.                                   *)
(*                                                                         *)
(* React state (useState) is a variable; the context value a consumer      *)
(* reads is the memoised object of the last render (variable value).       *)
(* Every action is one event handler, effect or promise continuation       *)
(* followed by the re-render React performs for it.  The functions a       *)
(* handler calls are the closures of the render it was created in, so      *)
(* they read that render's context value, not the state being written.     *)
(***************************************************************************)
EXTENDS Integers, Sequences, FiniteSets, TLC

\* ------------------------------------------------------------- bounds
MaxSteps == 3
MaxInFlight == 2

\* currentStep?: number left out by the embedding application
Undefined == 0 - 1

Lengths == 0..MaxSteps
DefaultSteps == 1..MaxSteps
ControlledValues == 1..MaxSteps
StepArgs == 0..(MaxSteps + 2)

\* onStepChange?: left out, the documented setStep feedback, or a callback
\* that does not feed the value back
OnStepChangeKinds == {"absent", "setStep", "ignore"}

\* where <StepPages> sits: a direct child of <StepPage>, or inside
\* <StepPageHeader> as in every documented composition
Placements == {"direct", "inHeader"}

\* onNext/onPrev: left out, returns normally, throws, or returns a promise
\* (which settles later, if it ever does)
HookKinds == {"absent", "sync", "syncThrow", "async"}

VARIABLES
    internalStep,    \* useState(defaultStep)
    controlledStep,  \* the currentStep prop (Undefined when left out)
    onStepChange,    \* the onStepChange prop
    totalSteps,      \* useState(0)
    stepsLen,        \* steps.length of the steps prop of StepPages
    placement,       \* where StepPages is placed
    effectPending,   \* the registration effect is scheduled and has not run
    registered,      \* setTotalSteps has been called at least once
    value,           \* the context value of the last render
    footerChildren,  \* custom content is given to StepPageFooter
    showDefaultActions, \* the showDefaultActions prop of StepPageFooter
    isLoading,       \* the footer's useState(false)
    inflight,        \* footer handlers suspended at their await
    out,             \* what the last handler did to the outside world
    last             \* the last operation and its argument

vars == <<internalStep, controlledStep, onStepChange, totalSteps, stepsLen,
          placement, effectPending, registered, value, footerChildren,
          showDefaultActions, isLoading, inflight, out, last>>

\* ------------------------------------------------------------- StepPage

isControlledOf(ctl) == ctl # Undefined

currentStepOf(ctl, int) == IF isControlledOf(ctl) THEN ctl ELSE int

CurrentStep == currentStepOf(controlledStep, internalStep)

\* a context value whose canGoNext is off by one
ContextValueOffByOne(ctl, int, total, onCh) ==
    [currentStep  |-> currentStepOf(ctl, int),
     totalSteps   |-> total,
     isControlled |-> isControlledOf(ctl),
     onStepChange |-> onCh,
     canGoNext    |-> currentStepOf(ctl, int) <= total,
     canGoPrev    |-> currentStepOf(ctl, int) > 1]

\* a context value whose currentStep is clamped to the registered range
ContextValueClamped(ctl, int, total, onCh) ==
    LET c == currentStepOf(ctl, int)
        k == IF total >= 1 /\ c > total THEN total ELSE c
    IN [currentStep  |-> k,
        totalSteps   |-> total,
        isControlled |-> isControlledOf(ctl),
        onStepChange |-> onCh,
        canGoNext    |-> k < total,
        canGoPrev    |-> k > 1]

ContextValue(ctl, int, total, onCh) ==
    [currentStep  |-> currentStepOf(ctl, int),
     totalSteps   |-> total,
     isControlled |-> isControlledOf(ctl),
     onStepChange |-> onCh,
     canGoNext    |-> currentStepOf(ctl, int) < total,
     canGoPrev    |-> currentStepOf(ctl, int) > 1]

MemoDeps(v) == <<v.currentStep, v.totalSteps, v.isControlled, v.onStepChange>>

useMemo(old, fresh) == IF MemoDeps(old) # MemoDeps(fresh) THEN fresh ELSE old

Render(ctl, int, total, onCh) ==
    value' = useMemo(value, ContextValue(ctl, int, total, onCh))

Event(name, arg) == [ev |-> name, arg |-> arg]

\* the state a handler writes: s.internalStep, s.controlledStep, s.out
Store == [internalStep |-> internalStep, controlledStep |-> controlledStep,
          out |-> <<>>]

callOnStepChange(ctx, step, s) ==
    IF ctx.onStepChange = "absent" THEN s
    ELSE [s EXCEPT !.out = Append(@, Event("onStepChange", step)),
                   !.controlledStep =
                       IF ctx.onStepChange = "setStep" THEN step ELSE @]

\* goToStep without the upper bound of its range check
goToStepNoUpperBound(ctx, step, s) ==
    IF step < 1 THEN s
    ELSE IF ctx.isControlled THEN callOnStepChange(ctx, step, s)
    ELSE [s EXCEPT !.internalStep = step]

\* goToStep that also writes the internal step in controlled mode
goToStepAlsoInternal(ctx, step, s) ==
    IF step < 1 \/ step > ctx.totalSteps THEN s
    ELSE IF ctx.isControlled
         THEN callOnStepChange(ctx, step, [s EXCEPT !.internalStep = step])
    ELSE [s EXCEPT !.internalStep = step]

\* goToStep whose lower bound lets step 0 through
goToStepNoLowerBound(ctx, step, s) ==
    IF step < 0 \/ step > ctx.totalSteps THEN s
    ELSE IF ctx.isControlled THEN callOnStepChange(ctx, step, s)
    ELSE [s EXCEPT !.internalStep = step]

\* goToStep that enforces its range only once a step count is registered
goToStepUnenforcedAtZero(ctx, step, s) ==
    IF ctx.totalSteps > 0 /\ (step < 1 \/ step > ctx.totalSteps) THEN s
    ELSE IF ctx.isControlled THEN callOnStepChange(ctx, step, s)
    ELSE [s EXCEPT !.internalStep = step]

goToStep(ctx, step, s) ==
    IF step < 1 \/ step > ctx.totalSteps THEN s
    ELSE IF ctx.isControlled THEN callOnStepChange(ctx, step, s)
    ELSE [s EXCEPT !.internalStep = step]

nextStep(ctx, s) == goToStep(ctx, ctx.currentStep + 1, s)

\* prevStep written as a copy of nextStep
prevStepCopyOfNext(ctx, s) == goToStep(ctx, ctx.currentStep + 1, s)

prevStep(ctx, s) == goToStep(ctx, ctx.currentStep - 1, s)

\* commit what a handler wrote, then re-render
Commit(s, op, arg) ==
    /\ internalStep' = s.internalStep
    /\ controlledStep' = s.controlledStep
    /\ out' = s.out
    /\ last' = [op |-> op, arg |-> arg]
    /\ Render(s.controlledStep, s.internalStep, totalSteps, onStepChange)

\* no effect is waiting to run and no handler is waiting for a microtask
MicrotaskPending ==
    \E i \in 1..Len(inflight) : inflight[i].hook \in {"absent", "sync"}

Quiet == ~effectPending /\ ~MicrotaskPending

\* defaultStep = 1
DefaultStep == 1

\* the defaultStep parameter of StepPage: the prop, or 1 when it is left out
defaultStepOf(prop) == IF prop = Undefined THEN DefaultStep ELSE prop

Init ==
    /\ \E d \in {Undefined} \cup DefaultSteps :
          /\ internalStep = defaultStepOf(d)
          /\ last = [op |-> "mount", arg |-> d]
    /\ controlledStep \in {Undefined} \cup ControlledValues
    /\ onStepChange \in OnStepChangeKinds
    /\ totalSteps = 0
    /\ stepsLen \in Lengths
    /\ placement \in Placements
    /\ effectPending = TRUE
    /\ registered = FALSE
    /\ value = ContextValue(controlledStep, internalStep, 0, onStepChange)
    /\ footerChildren \in BOOLEAN
    /\ showDefaultActions \in BOOLEAN
    /\ isLoading = FALSE
    /\ inflight = <<>>
    /\ out = <<>>

\* a consumer of useStepPage() calls goToStep(t)
GoToStep(t) ==
    /\ Quiet
    /\ Commit(goToStep(value, t, Store), "goToStep", t)
    /\ UNCHANGED <<footerChildren, showDefaultActions,
                   onStepChange, totalSteps, stepsLen, placement,
                   effectPending, registered, isLoading, inflight>>

\* a consumer of useStepPage() calls nextStep()
NextStep ==
    /\ Quiet
    /\ Commit(nextStep(value, Store), "nextStep", 0)
    /\ UNCHANGED <<footerChildren, showDefaultActions,
                   onStepChange, totalSteps, stepsLen, placement,
                   effectPending, registered, isLoading, inflight>>

\* a consumer of useStepPage() calls prevStep()
PrevStep ==
    /\ Quiet
    /\ Commit(prevStep(value, Store), "prevStep", 0)
    /\ UNCHANGED <<footerChildren, showDefaultActions,
                   onStepChange, totalSteps, stepsLen, placement,
                   effectPending, registered, isLoading, inflight>>

\* one handler of a consumer calls goToStep(k) and then nextStep(): both are
\* the functions of the render the handler was created in
GoToStepThenNextStep(k) ==
    /\ Quiet
    /\ Commit(nextStep(value, goToStep(value, k, Store)), "goToStep;nextStep", k)
    /\ UNCHANGED <<footerChildren, showDefaultActions,
                   onStepChange, totalSteps, stepsLen, placement,
                   effectPending, registered, isLoading, inflight>>

\* the embedding application renders StepPage with another currentStep prop
AppSupply(v) ==
    /\ Quiet
    /\ v # controlledStep
    /\ controlledStep' = v
    /\ out' = <<>>
    /\ last' = [op |-> "supply", arg |-> 0]
    /\ Render(v, internalStep, totalSteps, onStepChange)
    /\ UNCHANGED <<footerChildren, showDefaultActions,
                   internalStep, onStepChange, totalSteps, stepsLen, placement,
                   effectPending, registered, isLoading, inflight>>

\* ------------------------------------------------------------- useStepPage

\* React.useContext(StepPageContext): the provider's value inside a StepPage,
\* the default of createContext (undefined, here the empty tuple) outside
useContext(inside) == IF inside THEN <<value>> ELSE <<>>

\* a useStepPage that falls back to what it was given
useStepPageNoThrow(context) == [threw |-> FALSE, ctx |-> context]

\* if (!context) throw new Error(...); return context
useStepPage(context) ==
    IF context = <<>> THEN [threw |-> TRUE, ctx |-> <<>>]
    ELSE [threw |-> FALSE, ctx |-> context]

\* the context value the consumers inside the StepPage work with
Consumed == useStepPage(useContext(TRUE))

\* a component that calls useStepPage (StepPages, StepItem, StepPageFooter or
\* a custom consumer) is rendered outside every StepPage
RenderOutside ==
    LET r == useStepPage(useContext(FALSE))
    IN /\ out' = IF r.threw THEN <<Event("error", 0)>> ELSE <<>>
       /\ last' = [op |-> "renderOutside", arg |-> 0]
       /\ UNCHANGED <<footerChildren, showDefaultActions,
                      internalStep, controlledStep, onStepChange, totalSteps,
                      stepsLen, placement, effectPending, registered, value,
                      isLoading, inflight>>

\* ------------------------------------------------------------- StepPages

\* the setTotalSteps prop StepPages receives: cloneElement gives it to the
\* direct children of StepPage only, and StepPageHeader does not pass it on
setTotalStepsGiven(where) == where = "direct"

\* an effect that skips an empty step list
useEffectBodySkipEmpty(where, len, total) ==
    IF setTotalStepsGiven(where) /\ len > 0 THEN len ELSE total

\* the body of the effect: setTotalSteps?.(steps.length)
useEffectBody(where, len, total) ==
    IF setTotalStepsGiven(where) THEN len ELSE total

\* the registration effect runs (after mount, and after a change of its deps)
RegisterEffect ==
    /\ effectPending
    /\ effectPending' = FALSE
    /\ totalSteps' = useEffectBody(placement, stepsLen, totalSteps)
    /\ registered' = (registered \/ setTotalStepsGiven(placement))
    /\ out' = <<>>
    /\ last' = [op |-> "register", arg |-> 0]
    /\ Render(controlledStep, internalStep, totalSteps', onStepChange)
    /\ UNCHANGED <<footerChildren, showDefaultActions,
                   internalStep, controlledStep, onStepChange, stepsLen,
                   placement, isLoading, inflight>>

\* the application renders StepPages with a steps array of another length
StepsChange(n) ==
    /\ Quiet
    /\ n # stepsLen
    /\ stepsLen' = n
    /\ effectPending' = TRUE
    /\ out' = <<>>
    /\ last' = [op |-> "stepsChange", arg |-> 0]
    /\ UNCHANGED <<footerChildren, showDefaultActions,
                   internalStep, controlledStep, onStepChange, totalSteps,
                   placement, registered, value, isLoading, inflight>>

\* the steps prop: its length, and a revision of its descriptors' content
StepsProp(len, rev) == [length |-> len, rev |-> rev]

\* the dependency list of the effect: [steps.length, setTotalSteps]
useEffectDeps(steps, where) == <<steps.length, setTotalStepsGiven(where)>>

\* the application renders StepPages with a steps array of the same length
\* and other descriptors (a title edit): the effect is scheduled iff its
\* dependencies differ from those of the render before
StepsEdit ==
    /\ Quiet
    /\ stepsLen >= 1
    /\ effectPending' =
           (useEffectDeps(StepsProp(stepsLen, 0), placement)
            # useEffectDeps(StepsProp(stepsLen, 1), placement))
    /\ out' = <<>>
    /\ last' = [op |-> "stepsEdit", arg |-> 0]
    /\ UNCHANGED <<footerChildren, showDefaultActions,
                   internalStep, controlledStep, onStepChange, totalSteps,
                   stepsLen, placement, registered, value, isLoading, inflight>>

\* StepPages is mounted again with the same steps (a key change, or the
\* effect replay of React StrictMode): its effect runs once more
StepPagesRemount ==
    /\ Quiet
    /\ effectPending' = TRUE
    /\ out' = <<>>
    /\ last' = [op |-> "remount", arg |-> 0]
    /\ UNCHANGED <<footerChildren, showDefaultActions,
                   internalStep, controlledStep, onStepChange, totalSteps,
                   stepsLen, placement, registered, value, isLoading, inflight>>

isActive(v, stepNumber) == stepNumber = v.currentStep

isCompleted(v, stepNumber) == stepNumber < v.currentStep

\* a connector after every indicator, the last one included
connectorRenderedAfterEach(stepNumber, len) == stepNumber <= len

\* {stepNumber < steps.length && <li> connector </li>}
connectorRendered(stepNumber, len) == stepNumber < len

\* stepNumber < currentStep ? "bg-primary" : "bg-muted-foreground/30"
connectorCompleted(v, stepNumber) == stepNumber < v.currentStep

\* the indicators and the connectors in the output of steps.map
Indicators == 1..stepsLen

Connectors == {i \in Indicators : connectorRendered(i, stepsLen)}

\* an indicator that can also be clicked one step ahead
isClickableOneAhead(v, stepNumber) == stepNumber <= v.currentStep + 1

\* an indicator that can be clicked whatever the current step is
isClickableAnyStep(v, stepNumber) == stepNumber >= 1

isClickable(v, stepNumber) == stepNumber <= v.currentStep

\* disabled={!isClickable}
indicatorDisabled(v, stepNumber) == ~isClickable(v, stepNumber)

\* onClick={() => isClickable && goToStep(stepNumber)}
indicatorOnClick(v, stepNumber, s) ==
    IF isClickable(v, stepNumber) THEN goToStep(v, stepNumber, s) ELSE s

\* what a click on indicator i does: a disabled button delivers no click
indicatorClicked(v, stepNumber, s) ==
    IF indicatorDisabled(v, stepNumber) THEN s
    ELSE indicatorOnClick(v, stepNumber, s)

\* the user clicks indicator i
IndicatorClick(i) ==
    /\ Quiet
    /\ i \in 1..stepsLen
    /\ Commit(indicatorClicked(value, i, Store), "indicator", i)
    /\ UNCHANGED <<footerChildren, showDefaultActions,
                   onStepChange, totalSteps, stepsLen, placement,
                   effectPending, registered, isLoading, inflight>>

\* ------------------------------------------------------------- StepItem

\* a pane that is also rendered for the steps already passed
StepItemRendersPassed(v, step) == step <= v.currentStep

\* if (currentStep !== step) return null
StepItemRenders(v, step) == ~(v.currentStep # step)

\* the panes in the output, one StepItem being declared per step of the list
PanesPresent == {k \in 1..stepsLen : StepItemRenders(value, k)}

\* ------------------------------------------------------------- StepPageFooter

\* a footer whose showDefaultActions flag is looked at before its children
footerContentFlagFirst(children, show) ==
    IF show THEN "default" ELSE IF children THEN "custom" ELSE "none"

\* {children ? children : showDefaultActions ? <default buttons> : null}
footerContent(children, show) ==
    IF children THEN "custom" ELSE IF show THEN "default" ELSE "none"

defaultButtonsRendered ==
    footerContent(footerChildren, showDefaultActions) = "default"

\* a prev button whose disabled test was copied from the next button
prevDisabledCopyOfNext(v, loading) == ~v.canGoNext \/ loading

prevDisabled(v, loading) == ~v.canGoPrev \/ loading

\* a next button that stays enabled while the footer is loading
nextDisabledIgnoresLoading(v, loading) == ~v.canGoNext

\* a next button that is disabled by the pending handler only
nextDisabledOnlyLoading(v, loading) == loading

nextDisabled(v, loading) == ~v.canGoNext \/ loading

\* the nextLabel and prevLabel props: left out, or a label of the application
NextLabels == {"undefined", "Continue"}
PrevLabels == {"undefined", "Go Back"}

\* nextLabel = "Next", prevLabel = "Previous"
nextLabelOf(prop) == IF prop = "undefined" THEN "Next" ELSE prop

prevLabelOf(prop) == IF prop = "undefined" THEN "Previous" ELSE prop

\* const isLastStep = currentStep === totalSteps
isLastStep(v) == v.currentStep = v.totalSteps

\* a next button that reads "Finish" whenever there is no next step
nextButtonLabelAtEnd(v, prop) ==
    IF ~v.canGoNext THEN "Finish" ELSE nextLabelOf(prop)

\* {isLastStep ? "Finish" : nextLabel}
nextButtonLabel(v, prop) ==
    IF isLastStep(v) THEN "Finish" ELSE nextLabelOf(prop)

\* {prevLabel}
prevButtonLabel(v, prop) == prevLabelOf(prop)

Rejected == Event("rejected", 0)

\* a handler that catches the failure of its hook and drops it
afterAwaitSwallow(call, ok, s) ==
    [store |-> IF ok
               THEN IF call.dir = "next" THEN nextStep(call.ctx, s)
                                         ELSE prevStep(call.ctx, s)
               ELSE s,
     isLoading |-> FALSE]

\* a handler that resets isLoading after the commit only, not in a finally
afterAwaitNoFinally(call, ok, s) ==
    [store |-> IF ok
               THEN IF call.dir = "next" THEN nextStep(call.ctx, s)
                                         ELSE prevStep(call.ctx, s)
               ELSE [s EXCEPT !.out = Append(@, Rejected)],
     isLoading |-> ~ok]

\* a handler whose commit sits in the finally block
afterAwaitCommitInFinally(call, ok, s) ==
    [store |-> LET c == IF call.dir = "next" THEN nextStep(call.ctx, s)
                                             ELSE prevStep(call.ctx, s)
               IN IF ok THEN c ELSE [c EXCEPT !.out = Append(@, Rejected)],
     isLoading |-> FALSE]

\* the handler after its await: try { await hook; nextStep() } finally
\* { setIsLoading(false) }, and the promise it returns
afterAwait(call, ok, s) ==
    [store |-> IF ok
               THEN IF call.dir = "next" THEN nextStep(call.ctx, s)
                                         ELSE prevStep(call.ctx, s)
               ELSE [s EXCEPT !.out = Append(@, Rejected)],
     isLoading |-> FALSE]

\* handleNext / handlePrev up to the await
Trigger(dir, h) ==
    /\ Quiet
    /\ Len(inflight) < MaxInFlight
    /\ IF h = "syncThrow"
       THEN LET r == afterAwait([dir |-> dir, hook |-> h, ctx |-> value],
                                FALSE, Store)
            IN /\ isLoading' = r.isLoading
               /\ inflight' = inflight
               /\ Commit(r.store, dir \o "Throw", 0)
       ELSE /\ isLoading' = TRUE
            /\ inflight' = Append(inflight,
                                  [dir |-> dir, hook |-> h, ctx |-> value])
            /\ Commit(Store, dir, 0)
    /\ UNCHANGED <<footerChildren, showDefaultActions,
                   onStepChange, totalSteps, stepsLen, placement,
                   effectPending, registered>>

\* the user clicks the default next button
FooterNext(h) ==
    /\ defaultButtonsRendered
    /\ ~nextDisabled(value, isLoading)
    /\ Trigger("next", h)

\* the user clicks the default prev button
FooterPrev(h) ==
    /\ defaultButtonsRendered
    /\ ~prevDisabled(value, isLoading)
    /\ Trigger("prev", h)

Remove(q, i) == SubSeq(q, 1, i - 1) \o SubSeq(q, i + 1, Len(q))

Settle(i, ok) ==
    LET r == afterAwait(inflight[i], ok, Store)
    IN /\ isLoading' = r.isLoading
       /\ inflight' = Remove(inflight, i)
       /\ Commit(r.store, IF ok THEN "hookResolve" ELSE "hookReject", 0)
       /\ UNCHANGED <<footerChildren, showDefaultActions,
                      onStepChange, totalSteps, stepsLen, placement,
                      effectPending, registered>>

\* the awaited hook completed: absent and synchronous hooks in the microtask
\* after the click, a promise when it resolves
HookResolve ==
    \E i \in 1..Len(inflight) :
        /\ inflight[i].hook \in {"absent", "sync", "async"}
        /\ inflight[i].hook = "async" => ~MicrotaskPending
        /\ Settle(i, TRUE)

\* the promise the hook returned rejected
HookReject ==
    \E i \in 1..Len(inflight) :
        /\ inflight[i].hook = "async"
        /\ ~MicrotaskPending
        /\ Settle(i, FALSE)

Next ==
    \/ \E t \in StepArgs : GoToStep(t)
    \/ NextStep
    \/ PrevStep
    \/ \E k \in 1..MaxSteps : GoToStepThenNextStep(k)
    \/ \E v \in {Undefined} \cup ControlledValues : AppSupply(v)
    \/ RegisterEffect
    \/ \E n \in Lengths : StepsChange(n)
    \/ StepsEdit
    \/ StepPagesRemount
    \/ \E i \in 1..MaxSteps : IndicatorClick(i)
    \/ \E h \in HookKinds : FooterNext(h)
    \/ \E h \in HookKinds : FooterPrev(h)
    \/ HookResolve
    \/ HookReject
    \/ RenderOutside

Spec == Init /\ [][Next]_vars

\* the hooks settle: a microtask runs, and a promise is resolved or rejected
\* (the case the liveness of the footer is about)
LiveSpec ==
    /\ Init
    /\ [][Next]_vars
    /\ WF_vars(HookResolve \/ HookReject)

\* ------------------------------------------------------------- properties

Max(a, b) == IF a > b THEN a ELSE b

InRange(t, total) == 1 <= t /\ t <= total

\* C1: goToStep(t) with t < 1 or t > totalSteps changes neither currentStep
\* nor the internal step, calls no onStepChange and raises nothing, in
\* controlled and in uncontrolled mode.
C1_OutOfRangeIsNoOp ==
    [][(last'.op = "goToStep" /\ ~InRange(last'.arg, totalSteps))
       => /\ internalStep' = internalStep
          /\ controlledStep' = controlledStep
          /\ value'.currentStep = value.currentStep
          /\ out' = <<>>]_vars

C1_Witness ==
    /\ last.op = "goToStep"
    /\ last.arg > totalSteps
    /\ totalSteps >= 1
    /\ isControlledOf(controlledStep)
    /\ onStepChange = "setStep"

\* C2: in uncontrolled mode a valid goToStep(k) is visible to the navigation
\* call issued right after it: goToStep(k) followed by nextStep() ends at
\* k + 1 (at k when k is the last step).
C2_SecondCallObservesK ==
    (/\ last.op = "goToStep;nextStep"
     /\ ~isControlledOf(controlledStep)
     /\ InRange(last.arg, totalSteps))
    => CurrentStep = IF last.arg + 1 <= totalSteps THEN last.arg + 1
                                                   ELSE last.arg

\* C3: in controlled mode a valid goToStep(k) calls onStepChange(k) exactly
\* once and leaves the internal step alone, and the currentStep consumers
\* read changes only when the controlled value changes.
C3_ControlledRelaysOnly ==
    [][isControlledOf(controlledStep)
       => /\ (/\ last'.op = "goToStep"
              /\ onStepChange # "absent"
              /\ InRange(last'.arg, totalSteps))
             => /\ out' = <<Event("onStepChange", last'.arg)>>
                /\ internalStep' = internalStep
          /\ controlledStep' = controlledStep
             => value'.currentStep = value.currentStep]_vars

C3_Witness ==
    /\ last.op = "goToStep"
    /\ isControlledOf(controlledStep)
    /\ onStepChange = "ignore"
    /\ out = <<Event("onStepChange", last.arg)>>
    /\ last.arg # value.currentStep

\* C4: when the effect registers a list of n steps (n >= 0), totalSteps is n
\* afterwards, and registering the n that is already there changes nothing a
\* consumer can read.
C4_RegistrationSetsTotal ==
    [][(last'.op = "register" /\ setTotalStepsGiven(placement))
       => /\ totalSteps' = stepsLen
          /\ value'.totalSteps = stepsLen
          /\ totalSteps = stepsLen
             => /\ value' = value
                /\ internalStep' = internalStep
                /\ controlledStep' = controlledStep
                /\ isLoading' = isLoading
                /\ inflight' = inflight]_vars

\* a registration that is not the first one (a handler was started in
\* between) and that found the n that was there when the handler started
C4_Witness ==
    /\ last.op = "register"
    /\ setTotalStepsGiven(placement)
    /\ inflight # <<>>
    /\ totalSteps = stepsLen
    /\ inflight[1].ctx.totalSteps = totalSteps
    /\ totalSteps >= 2

\* C5: with StepPages inside StepPageHeader the length of the step list
\* reaches the controller: once the effect has run totalSteps is the number
\* of steps, so the next button is enabled on step 1 of two or more steps.
C5_HeaderCompositionRegisters ==
    (placement = "inHeader" /\ ~effectPending)
    => /\ totalSteps = stepsLen
       /\ (stepsLen >= 2 /\ value.currentStep = 1 /\ ~isLoading)
          => ~nextDisabled(value, isLoading)

\* C6: once the step list has registered, 1 <= currentStep <=
\* max(totalSteps, 1).
C6_StepWithinBounds ==
    registered
    => /\ 1 <= CurrentStep
       /\ CurrentStep <= Max(totalSteps, 1)

\* C7: the canGoNext and canGoPrev a consumer reads are currentStep <
\* totalSteps and currentStep > 1 of the currentStep and totalSteps it reads
\* with them, and these are the controller's current ones.
C7_DerivedFlagsAreFresh ==
    /\ value.canGoNext = (value.currentStep < value.totalSteps)
    /\ value.canGoPrev = (value.currentStep > 1)
    /\ value.currentStep = CurrentStep
    /\ value.totalSteps = totalSteps

C7_Witness ==
    /\ value.canGoNext
    /\ value.canGoPrev
    /\ last.op = "register"
    /\ registered

\* C8: when the hook of a footer handler throws or rejects, no step is
\* committed, the footer is idle again, and the handler's promise rejects.
C8_HookFailureKeepsStep ==
    [][last'.op \in {"hookReject", "nextThrow", "prevThrow"}
       => /\ internalStep' = internalStep
          /\ controlledStep' = controlledStep
          /\ value'.currentStep = value.currentStep
          /\ ~isLoading'
          /\ out' = <<Rejected>>]_vars

C8_Witness ==
    /\ last.op = "hookReject"
    /\ out = <<Rejected>>
    /\ ~isLoading
    /\ value.canGoNext

\* C9: at most one footer handler is suspended at its hook, and while one is
\* the footer is loading and both default buttons are disabled.
C9_OneHookInFlight ==
    /\ Len(inflight) <= 1
    /\ inflight # <<>>
       => /\ isLoading
          /\ nextDisabled(value, isLoading)
          /\ prevDisabled(value, isLoading)

C9_Witness ==
    /\ Len(inflight) = 1
    /\ inflight[1].dir = "next"
    /\ inflight[1].hook = "async"
    /\ value.canGoNext
    /\ value.canGoPrev

\* C10: when hooks settle, a loading footer becomes idle again; and a loading
\* footer becomes idle only in the step in which its hook settles, so it
\* stays loading for as long as the hook does not settle.
C10_FooterReturnsToIdle ==
    /\ isLoading ~> ~isLoading
    /\ [][(isLoading /\ ~isLoading')
          => last'.op \in {"hookResolve", "hookReject"}]_vars

C10_Witness ==
    /\ last.op = "hookResolve"
    /\ ~isLoading
    /\ inflight = <<>>
    /\ out # <<>>

\* C11: with a pane declared for each of the steps 1..n, exactly one pane is
\* in the output, the one of currentStep.
C11_ExactlyOnePane ==
    (registered /\ ~effectPending /\ stepsLen >= 1)
    => PanesPresent = {CurrentStep}

\* C12: indicator i is clickable exactly when i <= currentStep and disabled
\* otherwise; a click on a clickable indicator does what goToStep(i) does,
\* and a click on a disabled one changes nothing.
C12_IndicatorReachability ==
    [][/\ \A i \in 1..stepsLen :
            /\ isClickable(value, i) = (i <= CurrentStep)
            /\ indicatorDisabled(value, i) = (i > CurrentStep)
       /\ last'.op = "indicator"
          => IF last'.arg <= CurrentStep
             THEN LET s == goToStep(value, last'.arg, Store)
                  IN /\ internalStep' = s.internalStep
                     /\ controlledStep' = s.controlledStep
                     /\ out' = s.out
             ELSE /\ internalStep' = internalStep
                  /\ controlledStep' = controlledStep
                  /\ value' = value
                  /\ out' = <<>>]_vars

C12_Witness ==
    /\ last.op = "indicator"
    /\ last.arg = 3
    /\ CurrentStep = 2
    /\ totalSteps = 3
    /\ stepsLen = 3
    /\ ~isControlledOf(controlledStep)

\* C13: uncontrolled, defaultStep left out, 3 registered steps: currentStep
\* starts at 1; nextStep() at 1 gives 2; goToStep(5) at 2 leaves 2;
\* prevStep() at 2 gives 1; goToStep(1) at 1 leaves 1.
C13_EndToEnd ==
    /\ (last.op = "mount" /\ last.arg = Undefined
        /\ ~isControlledOf(controlledStep))
       => (CurrentStep = 1 /\ value.currentStep = 1)
    /\ [][(~isControlledOf(controlledStep) /\ registered /\ totalSteps = 3)
          => /\ (last'.op = "nextStep" /\ CurrentStep = 1)
                => (CurrentStep' = 2 /\ value'.currentStep = 2)
             /\ (last'.op = "goToStep" /\ last'.arg = 5 /\ CurrentStep = 2)
                => (CurrentStep' = 2 /\ value'.currentStep = 2)
             /\ (last'.op = "prevStep" /\ CurrentStep = 2)
                => (CurrentStep' = 1 /\ value'.currentStep = 1)
             /\ (last'.op = "goToStep" /\ last'.arg = 1 /\ CurrentStep = 1)
                => (CurrentStep' = 1 /\ value'.currentStep = 1)]_vars

C13_Witness ==
    /\ last.op = "prevStep"
    /\ ~isControlledOf(controlledStep)
    /\ registered
    /\ totalSteps = 3
    /\ stepsLen = 3
    /\ CurrentStep = 1
    /\ value.canGoNext
    /\ ~value.canGoPrev

\* C14: useStepPage outside a StepPage throws and returns nothing; inside a
\* StepPage it returns the provider's value and does not throw, and no
\* operation inside the StepPage raises this error.
C14_OutsideProviderThrows ==
    /\ ~Consumed.threw
    /\ Consumed.ctx = <<value>>
    /\ last.op = "renderOutside" => out = <<Event("error", 0)>>
    /\ last.op # "renderOutside"
       => \A i \in 1..Len(out) : out[i].ev # "error"

C14_Witness ==
    /\ last.op = "renderOutside"
    /\ out = <<Event("error", 0)>>
    /\ registered
    /\ totalSteps = 3

\* C15: nextStep() does what goToStep(currentStep + 1) does and prevStep()
\* what goToStep(currentStep - 1) does, currentStep being the controller's
\* step when the call is made: by a consumer, or by a footer handler after
\* its hook (stated for a controller whose mode is the one it had when the
\* handler started).
C15_NextPrevAreGoToStep ==
    [][LET fresh == ContextValue(controlledStep, internalStep, totalSteps,
                                 onStepChange)
           n == goToStep(fresh, CurrentStep + 1, Store)
           p == goToStep(fresh, CurrentStep - 1, Store)
           Does(s) == /\ internalStep' = s.internalStep
                      /\ controlledStep' = s.controlledStep
                      /\ out' = s.out
       IN /\ last'.op = "nextStep" => Does(n)
          /\ last'.op = "prevStep" => Does(p)
          /\ (/\ last'.op = "hookResolve"
              /\ Len(inflight) = 1
              /\ inflight[1].ctx.isControlled = isControlledOf(controlledStep))
             => IF inflight[1].dir = "next" THEN Does(n) ELSE Does(p)]_vars

\* C16: a controller that starts controlled stays controlled and one that
\* starts uncontrolled stays uncontrolled.
C16_ModeIsPermanent ==
    [][/\ isControlledOf(controlledStep') = isControlledOf(controlledStep)
       /\ value'.isControlled = value.isControlled]_vars

\* C18: the commit after a hook that resolved moves one step from the step
\* that is current when it commits, within the totalSteps of that moment
\* (stated for a controller whose mode is the one it had at the trigger).
C18_CommitFromCurrentStep ==
    [][(/\ last'.op = "hookResolve"
        /\ Len(inflight) = 1
        /\ inflight[1].ctx.isControlled = isControlledOf(controlledStep))
       => LET target == IF inflight[1].dir = "next" THEN CurrentStep + 1
                                                    ELSE CurrentStep - 1
          IN IF ~InRange(target, totalSteps)
             THEN /\ internalStep' = internalStep
                  /\ controlledStep' = controlledStep
                  /\ out' = <<>>
             ELSE IF isControlledOf(controlledStep)
             THEN /\ internalStep' = internalStep
                  /\ onStepChange # "absent"
                     => out' = <<Event("onStepChange", target)>>
             ELSE /\ internalStep' = target
                  /\ value'.currentStep = target]_vars

FooterOps == {"next", "prev", "nextThrow", "prevThrow", "hookResolve",
              "hookReject"}

\* C17: custom footer content replaces the default buttons whatever
\* showDefaultActions is; without custom content the default buttons are
\* rendered iff showDefaultActions; and a footer without default buttons
\* never loads, never runs a hook and never commits.
C17_CustomContentReplacesButtons ==
    /\ footerChildren
       => footerContent(footerChildren, showDefaultActions) = "custom"
    /\ ~footerChildren
       => (defaultButtonsRendered <=> showDefaultActions)
    /\ (footerChildren \/ ~defaultButtonsRendered)
       => /\ ~isLoading
          /\ inflight = <<>>
          /\ last.op \notin FooterOps

C17_Witness ==
    /\ footerChildren
    /\ showDefaultActions
    /\ last.op = "nextStep"
    /\ value.currentStep = 2
    /\ value.canGoNext
    /\ value.canGoPrev

StepUntouched ==
    /\ internalStep' = internalStep
    /\ controlledStep' = controlledStep
    /\ value'.currentStep = value.currentStep
    /\ \A i \in 1..Len(out') : out'[i].ev # "onStepChange"

\* C19: a footer trigger sets the footer loading and commits nothing; of the
\* footer's own steps only the one in which the hook has completed without
\* failure touches the step; a failed hook commits nothing; and the footer
\* becomes idle only in the step of the commit or of the failure.
C19_FooterOrdering ==
    [][/\ last'.op \in {"next", "prev"}
          => /\ isLoading'
             /\ Len(inflight') = Len(inflight) + 1
             /\ StepUntouched
       /\ (last'.op \in FooterOps /\ last'.op # "hookResolve")
          => StepUntouched
       /\ last'.op \in {"hookResolve", "hookReject"}
          => (isLoading /\ ~isLoading' /\ Len(inflight') = Len(inflight) - 1)
       /\ (isLoading /\ ~isLoading')
          => last'.op \in {"hookResolve", "hookReject"}]_vars

C19_Witness ==
    /\ last.op = "next"
    /\ isLoading
    /\ Len(inflight) = 1
    /\ inflight[1].hook = "async"
    /\ inflight[1].ctx.currentStep = CurrentStep
    /\ CurrentStep = 2

\* C20: while a footer hook is pending, a click on a clickable indicator i
\* does what goToStep(i) does, leaves the footer loading, and in uncontrolled
\* mode changes currentStep to i.
C20_IndicatorClickWhilePending ==
    [][(/\ last'.op = "indicator"
        /\ isLoading
        /\ inflight # <<>>
        /\ last'.arg <= CurrentStep)
       => LET s == goToStep(value, last'.arg, Store)
          IN /\ internalStep' = s.internalStep
             /\ controlledStep' = s.controlledStep
             /\ out' = s.out
             /\ isLoading'
             /\ inflight' = inflight
             /\ ~isControlledOf(controlledStep)
                => (CurrentStep' = last'.arg
                    /\ value'.currentStep = last'.arg)]_vars

ControllerOps == {"goToStep", "nextStep", "prevStep", "goToStep;nextStep"}

\* C21: a click on an indicator never increases currentStep; when currentStep
\* increases without a new controlled value, the step was a goToStep/nextStep
\* of a consumer or the commit of a footer handler.
C21_IndicatorNeverForward ==
    [][/\ last'.op = "indicator"
          => /\ CurrentStep' <= CurrentStep
             /\ value'.currentStep <= value.currentStep
       /\ (CurrentStep' > CurrentStep /\ last'.op # "supply")
          => last'.op \in {"goToStep", "nextStep", "goToStep;nextStep",
                           "hookResolve"}]_vars

C21_Witness ==
    /\ last.op = "indicator"
    /\ last.arg = 1
    /\ CurrentStep = 1
    /\ totalSteps = 3
    /\ inflight # <<>>
    /\ inflight[1].ctx.currentStep = 3
    /\ inflight[1].ctx.totalSteps = 3

\* C22: while the default buttons are rendered, prev is disabled exactly
\* when currentStep <= 1 or the footer is loading, next exactly when
\* currentStep >= totalSteps or the footer is loading; a handler is
\* suspended exactly while the footer is loading.
C22_DisabledPredicates ==
    defaultButtonsRendered
    => /\ prevDisabled(value, isLoading) <=> (~(CurrentStep > 1) \/ isLoading)
       /\ nextDisabled(value, isLoading)
          <=> (~(CurrentStep < totalSteps) \/ isLoading)
       /\ isLoading <=> (inflight # <<>>)

\* both buttons are disabled by the pending handler alone
C22_Witness ==
    /\ defaultButtonsRendered
    /\ last.op = "prev"
    /\ isLoading
    /\ totalSteps = 3
    /\ CurrentStep = 2
    /\ nextDisabled(value, isLoading)
    /\ prevDisabled(value, isLoading)

\* C23: totalSteps changes in a registration step only, and it is left alone
\* by goToStep, nextStep, prevStep, indicator clicks and footer steps;
\* currentStep changes only in a step of the controller's goToStep, nextStep
\* or prevStep (called by a consumer, an indicator or a footer commit) or
\* with a new controlled value.
C23_FrameOfStepState ==
    [][/\ totalSteps' # totalSteps
          => last'.op = "register"
       /\ value'.totalSteps # value.totalSteps
          => last'.op = "register"
       /\ (CurrentStep' # CurrentStep \/ internalStep' # internalStep
           \/ value'.currentStep # value.currentStep)
          => last'.op \in ControllerOps \cup {"indicator", "hookResolve",
                                              "supply"}]_vars

C23_Witness ==
    /\ last.op = "register"
    /\ totalSteps = 2
    /\ CurrentStep = 3
    /\ value.currentStep = 3
    /\ ~isControlledOf(controlledStep)
    /\ inflight # <<>>
    /\ inflight[1].ctx.totalSteps = 3

\* every suspended footer handler was started with the present totalSteps
HandlersSaw(total) ==
    \A i \in 1..Len(inflight) : inflight[i].ctx.totalSteps = total

\* C24: uncontrolled, totalSteps staying at n >= 1, and currentStep within
\* 1..n: every step of goToStep (any argument), nextStep, prevStep, an
\* indicator click or a footer handler started under that n leaves
\* currentStep within 1..n.
C24_BoundsArePreserved ==
    [][(/\ ~isControlledOf(controlledStep)
        /\ ~isControlledOf(controlledStep')
        /\ totalSteps >= 1
        /\ totalSteps' = totalSteps
        /\ HandlersSaw(totalSteps)
        /\ InRange(CurrentStep, totalSteps))
       => /\ InRange(CurrentStep', totalSteps)
          /\ value'.currentStep = CurrentStep']_vars

\* a footer commit that reached the last step
C24_Witness ==
    /\ last.op = "hookResolve"
    /\ ~isControlledOf(controlledStep)
    /\ totalSteps = 3
    /\ CurrentStep = 3
    /\ ~value.canGoNext
    /\ inflight = <<>>

\* C25: while totalSteps is 0, canGoNext is false, goToStep(t) for every t,
\* nextStep and prevStep change nothing and call nothing, and currentStep
\* changes only with a new controlled value.
C25_NothingMovesAtZero ==
    [][(totalSteps = 0 /\ totalSteps' = 0 /\ HandlersSaw(0))
       => /\ ~value.canGoNext
          /\ ~value'.canGoNext
          /\ last'.op \in ControllerOps
             => /\ value' = value
                /\ out' = <<>>
          /\ last'.op # "supply"
             => /\ internalStep' = internalStep
                /\ controlledStep' = controlledStep
                /\ value'.currentStep = value.currentStep]_vars

C25_Witness ==
    /\ last.op = "goToStep"
    /\ last.arg = 2
    /\ totalSteps = 0
    /\ stepsLen = 3
    /\ ~effectPending
    /\ internalStep = 1
    /\ ~isControlledOf(controlledStep)

\* C26: the default next button reads "Finish" when currentStep = totalSteps,
\* whatever nextLabel is, and nextLabel ("Next" when left out) otherwise; the
\* prev button reads prevLabel ("Previous" when left out) in every state.
C26_FinishLabel ==
    defaultButtonsRendered
    => /\ \A nl \in NextLabels :
            nextButtonLabel(value, nl) =
                IF CurrentStep = totalSteps THEN "Finish"
                ELSE IF nl = "undefined" THEN "Next" ELSE nl
       /\ \A pl \in PrevLabels :
            prevButtonLabel(value, pl) =
                IF pl = "undefined" THEN "Previous" ELSE pl

\* the footer has committed onto the last of two steps
C26_Witness ==
    /\ defaultButtonsRendered
    /\ last.op = "hookResolve"
    /\ totalSteps = 2
    /\ CurrentStep = 2
    /\ nextButtonLabel(value, "Continue") = "Finish"
    /\ prevButtonLabel(value, "Go Back") = "Go Back"

\* C27: a click on the default next button (which calls onNext) happens only
\* where currentStep < totalSteps, a click on the default prev button only
\* where currentStep > 1; a next button that reads "Finish" is disabled.
C27_HooksOnlyWithinRange ==
    /\ []((defaultButtonsRendered
           /\ \E nl \in NextLabels : nextButtonLabel(value, nl) = "Finish")
          => nextDisabled(value, isLoading))
    /\ [][/\ last'.op \in {"next", "nextThrow"}
             => (defaultButtonsRendered /\ CurrentStep < totalSteps)
          /\ last'.op \in {"prev", "prevThrow"}
             => (defaultButtonsRendered /\ CurrentStep > 1)]_vars

\* onNext ran, and threw, on step 1 of 2
C27_Witness ==
    /\ last.op = "nextThrow"
    /\ out = <<Rejected>>
    /\ totalSteps = 2
    /\ CurrentStep = 1
    /\ \A nl \in NextLabels : nextButtonLabel(value, nl) # "Finish"

\* C28: when the length of the step list changes, the effect is scheduled and
\* once it has run totalSteps is the new length; when the descriptors change
\* and the length does not, no effect is scheduled and totalSteps is left
\* alone; the effect runs once per time it is scheduled.
C28_RegistrationKeyedOnLength ==
    [][/\ last'.op = "stepsChange"
          => effectPending'
       /\ (last.op = "stepsChange" /\ last'.op = "register")
          => (totalSteps' = stepsLen /\ value'.totalSteps = stepsLen)
       /\ last'.op = "register"
          => (effectPending /\ ~effectPending')
       /\ last'.op = "stepsEdit"
          => (~effectPending' /\ totalSteps' = totalSteps
              /\ value' = value)]_vars

\* C29: indicator i of a list of n steps is completed iff i < currentStep and
\* active iff i = currentStep, so at most one is active and none is both;
\* there is a connector after every indicator but the last (n - 1 of them
\* for n >= 1, none for an empty list), and the connector after indicator i
\* is completed iff i < currentStep.
C29_IndicatorsAndConnectors ==
    /\ \A i \in Indicators :
          /\ isCompleted(value, i) <=> (i < CurrentStep)
          /\ isActive(value, i) <=> (i = CurrentStep)
          /\ ~(isCompleted(value, i) /\ isActive(value, i))
    /\ Cardinality({i \in Indicators : isActive(value, i)}) <= 1
    /\ Connectors = {i \in Indicators : i # stepsLen}
    /\ stepsLen >= 1 => Cardinality(Connectors) = stepsLen - 1
    /\ stepsLen = 0 => Connectors = {}
    /\ \A i \in Connectors :
          connectorCompleted(value, i) <=> (i < CurrentStep)

C29_Witness ==
    /\ last.op = "nextStep"
    /\ stepsLen = 3
    /\ CurrentStep = 2
    /\ isCompleted(value, 1)
    /\ isActive(value, 2)
    /\ ~isCompleted(value, 3) /\ ~isActive(value, 3)
    /\ Connectors = {1, 2}
    /\ connectorCompleted(value, 1)
    /\ ~connectorCompleted(value, 2)

====
